---- MODULE Spec2Model ----
(***************************************************************************)
(* Model of server/src/services/auth.ts: the login, register,             *)
(* refreshToken, githubToken and githubData services, run as concurrent   *)
(* request-scoped calls against one "users" table.  Every await that       *)
(* touches the table is one step of a call.                                *)
(***************************************************************************)
EXTENDS Integers, Sequences, FiniteSets, TLC

\* ------------------------------------------------------------- bounds
MaxCalls == 2
MaxTime == 2
MaxVersion == 1

\* ------------------------------------------- configuration (process.env)
REFRESH_TOKEN_SECRET == "refresh-secret"
ACCESS_TOKEN_SECRET == "access-secret"
REFRESH_TOKEN_EXPIRATION == 2
ACCESS_TOKEN_EXPIRATION == 1

\* ---------------------------------------------------------- input sets
\* Requests are numbered in the order they arrive; any number may be in flight.
Calls == 1..MaxCalls
NULL == "NULL"
Emails == {"a@x.com", "b@x.com"}
Names == {"ana", "bob"}
\* Passwords tried at login; accounts are registered with the first.
Passwords == {"Secret1!", "hunter2"}
RegisterPasswords == {"Secret1!"}
\* The salts bcrypt draws.
Salts == {"s1"}
GithubIds == {"gh1"}

VARIABLES users, now, pc, arg, res, compared

vars == <<users, now, pc, arg, res, compared>>

\* ------------------------------------------------------ error values
AppError(status, message) ==
  [kind |-> "AppError", status |-> status, message |-> message]

Thrown(name) == [kind |-> name]

NoResult == [kind |-> "none"]

\* ------------------------------------------------------------- bcrypt
\* A null column value of users.password.
NullPassword == <<>>

\* bcrypt.hash(password, 12): the salt is drawn per call and embedded.
BcryptHash(password, salt) == <<password, salt>>

\* bcrypt.compare(data, hash): rejects when the hash is null or undefined,
\* otherwise resolves to whether data hashes to hash under hash's salt.
BcryptCompare(data, hash) ==
  IF hash = NullPassword THEN "throw"
  ELSE IF BcryptHash(data, hash[2]) = hash THEN "true" ELSE "false"

\* ------------------------------------------------------- jsonwebtoken
NoToken == [userId |-> 0, tokenVersion |-> 0, secret |-> "none", exp |-> 0]

\* jwt.sign(payload, secret, {expiresIn}).
JwtSign(payload, secret, expiresIn) ==
  [userId |-> payload.userId, tokenVersion |-> payload.tokenVersion,
   secret |-> secret, exp |-> now + expiresIn]

\* Mutant: the token is decoded and its expiry checked, its signature is not.
JwtVerifyUnsigned(token, secret) ==
  IF now >= token.exp THEN [ok |-> FALSE, error |-> "TokenExpiredError"]
  ELSE [ok |-> TRUE, userId |-> token.userId, tokenVersion |-> token.tokenVersion]

\* jwt.verify(token, secret): the signature is checked first, then the expiry.
JwtVerify(token, secret) ==
  IF token.secret # secret THEN [ok |-> FALSE, error |-> "JsonWebTokenError"]
  ELSE IF now >= token.exp THEN [ok |-> FALSE, error |-> "TokenExpiredError"]
  ELSE [ok |-> TRUE, userId |-> token.userId, tokenVersion |-> token.tokenVersion]

\* A token no secret of this process signed.
ForgedTokens ==
  {[userId |-> 1, tokenVersion |-> 0, secret |-> "forged", exp |-> MaxTime + 1]}

\* -------------------------------------------------------- users table
WhereEmail(email) == SelectSeq(users, LAMBDA r : r.email = email)

WhereName(name) == SelectSeq(users, LAMBDA r : r.name = name)

WhereGithubId(id) == SelectSeq(users, LAMBDA r : r.githubId = id)

WhereIdAndVersion(id, version) ==
  SelectSeq(users, LAMBDA r : r.id = id /\ r.token_version = version)

\* Mutant: a table created without its unique constraints.
UniqueViolationDropped(fields) == FALSE

\* Mutant: email and name are unique columns, githubId is not.
UniqueViolationNoGithubId(fields) ==
  \E i \in 1..Len(users) :
    users[i].email = fields.email \/ users[i].name = fields.name

\* The table's uniqueness constraints on email, name and githubId.
UniqueViolation(fields) ==
  \E i \in 1..Len(users) :
    \/ users[i].email = fields.email
    \/ users[i].name = fields.name
    \/ (fields.githubId # NULL /\ users[i].githubId = fields.githubId)

\* The row insert(fields, "*") returns: store-assigned id, token_version 0.
NewRow(fields) ==
  [id |-> Len(users) + 1, name |-> fields.name, email |-> fields.email,
   password |-> fields.password, githubId |-> fields.githubId,
   token_version |-> 0]

\* Mutant: the row is returned as stored.
OmitNothing(user) == user

\* const { password: omit, ...rest } = user
OmitPassword(user) == [f \in DOMAIN user \ {"password"} |-> user[f]]

\* ------------------------------------------------------ token issuance
\* Mutant: the payload carries the initial token-version, not the row's.
PayloadInitialVersion(user) == [userId |-> user.id, tokenVersion |-> 0]

Payload(user) == [userId |-> user.id, tokenVersion |-> user.token_version]

SignRefresh(user) ==
  JwtSign(Payload(user), REFRESH_TOKEN_SECRET, REFRESH_TOKEN_EXPIRATION)

SignAccess(user) ==
  JwtSign(Payload(user), ACCESS_TOKEN_SECRET, ACCESS_TOKEN_EXPIRATION)

Success(userOut, user) ==
  [kind |-> "ok", user |-> userOut, refreshToken |-> SignRefresh(user),
   accessToken |-> SignAccess(user)]

\* The tokens a result hands to the caller.
TokensOf(r) ==
  IF r.kind # "ok" THEN {}
  ELSE IF "refreshToken" \in DOMAIN r THEN {r.refreshToken, r.accessToken}
  ELSE IF "accessToken" \in DOMAIN r THEN {r.accessToken}
  ELSE {}

\* ------------------------------------------------------------- calls
\* No row read yet.
NoUser ==
  [id |-> 0, name |-> NULL, email |-> NULL, password |-> NullPassword,
   githubId |-> NULL, token_version |-> 0]

NoArg ==
  [op |-> "none", name |-> NULL, email |-> NULL, password |-> NULL,
   githubId |-> NULL, verified |-> FALSE, token |-> NoToken,
   answer |-> NULL, user |-> NoUser]

\* The tokens callers hold: those of the results they were handed.
HeldTokens ==
  UNION {TokensOf(res[p]) : p \in Calls}

\* A call ends: its result is handed to the caller.
Finish(p, a, r) ==
  /\ pc' = [pc EXCEPT ![p] = "done"]
  /\ arg' = [arg EXCEPT ![p] = a]
  /\ res' = [res EXCEPT ![p] = r]

\* A call goes on to its next await.
Goto(p, a, label) ==
  /\ pc' = [pc EXCEPT ![p] = label]
  /\ arg' = [arg EXCEPT ![p] = a]
  /\ UNCHANGED res

\* Request p arrives.
Begin(p) ==
  /\ pc[p] = "new"
  /\ \A q \in Calls : q < p => pc[q] # "new"

\* ------------------------------------------------------------- login
\* The rest of login once the row is read: compare, sign, strip the password.
LoginResult(user, password) ==
  LET match == BcryptCompare(password, user.password) IN
  IF match = "throw" THEN Thrown("Error")
  ELSE IF match = "false" THEN AppError(401, "Invalid password.")
  ELSE Success(OmitPassword(user), user)

\* login up to its select: the row read is kept in the call's locals.
LoginSelect(p) ==
  /\ Begin(p)
  /\ \E email \in Emails, password \in Passwords :
       LET a == [NoArg EXCEPT !.op = "login", !.email = email,
                              !.password = password]
           userWithEmail == WhereEmail(email)
       IN IF Len(userWithEmail) = 0
          THEN Finish(p, a, AppError(404,
                              "User with given e-mail address not found."))
          ELSE Goto(p, [a EXCEPT !.user = userWithEmail[1]], "login_compare")
  /\ UNCHANGED <<users, now, compared>>

\* Mutant: a successful login records itself on the row.
LoginCompareTouchesRow(p) ==
  /\ pc[p] = "login_compare"
  /\ Finish(p, arg[p], LoginResult(arg[p].user, arg[p].password))
  /\ compared' = [compared EXCEPT ![p] = TRUE]
  /\ users' = IF LoginResult(arg[p].user, arg[p].password).kind = "ok"
              THEN [users EXCEPT ![arg[p].user.id].name = arg[p].email]
              ELSE users
  /\ UNCHANGED now

\* login from the await of bcrypt.compare on.
LoginCompare(p) ==
  /\ pc[p] = "login_compare"
  /\ Finish(p, arg[p], LoginResult(arg[p].user, arg[p].password))
  /\ compared' = [compared EXCEPT ![p] = TRUE]
  /\ UNCHANGED <<users, now>>

\* ----------------------------------------------------------- register
\* Mutant: the e-mail existence check is left out.
EmailNeverTaken(email) == FALSE

EmailTaken(email) == Len(WhereEmail(email)) # 0

NameTaken(name) == Len(WhereName(name)) # 0

\* db("users").insert(fields, "*"): the inserted row, or the store's
\* duplicate-key error when a unique column collides.
Insert(fields) ==
  IF UniqueViolation(fields) THEN [ok |-> FALSE, error |-> "DuplicateKey"]
  ELSE [ok |-> TRUE, row |-> NewRow(fields)]

RegisterFields(a, salt) ==
  [name |-> a.name, email |-> a.email,
   password |-> BcryptHash(a.password, salt), githubId |-> NULL]

\* Mutant: the name is looked up before the e-mail.
RegisterNameFirst(p) ==
  /\ Begin(p)
  /\ \E name \in Names, email \in Emails, password \in RegisterPasswords :
       LET a == [NoArg EXCEPT !.op = "register", !.name = name,
                              !.email = email, !.password = password]
       IN IF NameTaken(name)
          THEN Finish(p, a, AppError(422, "Name is already taken."))
          ELSE IF EmailTaken(email)
          THEN Finish(p, a, AppError(422, "E-mail address is already taken."))
          ELSE Goto(p, a, "reg_name")
  /\ UNCHANGED <<users, now, compared>>

RegisterEmail(p) ==
  /\ Begin(p)
  /\ \E name \in Names, email \in Emails, password \in RegisterPasswords :
       LET a == [NoArg EXCEPT !.op = "register", !.name = name,
                              !.email = email, !.password = password]
       IN IF EmailTaken(email)
          THEN Finish(p, a, AppError(422, "E-mail address is already taken."))
          ELSE Goto(p, a, "reg_name")
  /\ UNCHANGED <<users, now, compared>>

RegisterName(p) ==
  /\ pc[p] = "reg_name"
  /\ IF NameTaken(arg[p].name)
     THEN Finish(p, arg[p], AppError(422, "Name is already taken."))
     ELSE Goto(p, arg[p], "reg_insert")
  /\ UNCHANGED <<users, now, compared>>

RegisterInsert(p) ==
  /\ pc[p] = "reg_insert"
  /\ \E salt \in Salts :
       LET newUser == Insert(RegisterFields(arg[p], salt)) IN
       IF newUser.ok
       THEN /\ users' = Append(users, newUser.row)
            /\ Finish(p, arg[p], Success(OmitPassword(newUser.row), newUser.row))
       ELSE /\ users' = users
            /\ Finish(p, arg[p], Thrown(newUser.error))
  /\ UNCHANGED <<now, compared>>

\* ------------------------------------------------------- refreshToken
RefreshResult(token) ==
  LET payload == JwtVerify(token, REFRESH_TOKEN_SECRET) IN
  IF ~payload.ok THEN Thrown(payload.error)
  ELSE LET userExists == WhereIdAndVersion(payload.userId, payload.tokenVersion)
       IN IF Len(userExists) = 0
          THEN AppError(401, "Refresh token is invalid.")
          ELSE [kind |-> "ok", accessToken |-> SignAccess(userExists[1])]

\* Mutant: a successful refresh rotates the refresh token by bumping the
\* user's token-version.
RefreshTokenRotates(p) ==
  /\ Begin(p)
  /\ \E token \in HeldTokens \cup ForgedTokens :
       /\ Finish(p, [NoArg EXCEPT !.op = "refreshToken", !.token = token],
                 RefreshResult(token))
       /\ users' = IF RefreshResult(token).kind = "ok"
                   THEN [users EXCEPT ![token.userId].token_version = @ + 1]
                   ELSE users
  /\ UNCHANGED <<now, compared>>

RefreshToken(p) ==
  /\ Begin(p)
  /\ \E token \in HeldTokens \cup ForgedTokens :
       Finish(p, [NoArg EXCEPT !.op = "refreshToken", !.token = token],
              RefreshResult(token))
  /\ UNCHANGED <<users, now, compared>>

\* -------------------------------------------------------- githubToken
\* What the provider's token endpoint does with a code.
ProviderAnswers == {"access_token", "no_access_token", "request_failed"}

GithubTokenResult(answer) ==
  IF answer = "request_failed" THEN Thrown("AxiosError")
  ELSE IF answer = "no_access_token" THEN AppError(401, "Invalid code.")
  ELSE [kind |-> "ok", githubAccessToken |-> "gho"]

GithubToken(p) ==
  /\ Begin(p)
  /\ \E answer \in ProviderAnswers :
       Finish(p, [NoArg EXCEPT !.op = "githubToken", !.answer = answer],
              GithubTokenResult(answer))
  /\ UNCHANGED <<users, now, compared>>

\* --------------------------------------------------------- githubData
Entry(email, primary, verified) ==
  [email |-> email, primary |-> primary, verified |-> verified]

\* Answers of GET /user/emails.
EmailLists ==
  {<<Entry("a@x.com", TRUE, TRUE)>>,
   <<Entry("a@x.com", TRUE, FALSE)>>,
   <<Entry("a@x.com", FALSE, TRUE), Entry("b@x.com", TRUE, TRUE)>>,
   <<Entry("a@x.com", FALSE, TRUE)>>}

\* githubEmail.data.find(email => email.primary): the first primary entry.
FindPrimary(data) ==
  LET hits == SelectSeq(data, LAMBDA e : e.primary) IN
  IF Len(hits) = 0 THEN [found |-> FALSE] ELSE [found |-> TRUE, entry |-> hits[1]]

GithubFields(a) ==
  [githubId |-> a.githubId, email |-> a.email, name |-> a.name,
   password |-> NullPassword]

GithubFetch(p) ==
  /\ Begin(p)
  /\ \/ Finish(p, [NoArg EXCEPT !.op = "githubData"], Thrown("AxiosError"))
     \/ \E data \in EmailLists, id \in GithubIds, login \in Names :
          LET hit == FindPrimary(data) IN
          IF ~hit.found
          THEN Finish(p, [NoArg EXCEPT !.op = "githubData"], Thrown("TypeError"))
          ELSE Goto(p, [NoArg EXCEPT !.op = "githubData",
                                     !.email = hit.entry.email,
                                     !.verified = hit.entry.verified,
                                     !.githubId = id, !.name = login],
                    "gh_lookup")
  /\ UNCHANGED <<users, now, compared>>

\* Mutant: a returning provider identity is refused when the e-mail the
\* provider now reports is held by a row.
GithubLookupChecksEmail(p) ==
  /\ pc[p] = "gh_lookup"
  /\ LET userId == WhereGithubId(arg[p].githubId) IN
     IF Len(userId) # 0 /\ EmailTaken(arg[p].email)
     THEN Finish(p, arg[p], AppError(422, "E-mail address is already taken."))
     ELSE IF Len(userId) # 0
     THEN Finish(p, arg[p], Success(OmitPassword(userId[1]), userId[1]))
     ELSE Goto(p, arg[p], "gh_email")
  /\ UNCHANGED <<users, now, compared>>

GithubLookup(p) ==
  /\ pc[p] = "gh_lookup"
  /\ LET userId == WhereGithubId(arg[p].githubId) IN
     IF Len(userId) # 0
     THEN Finish(p, arg[p], Success(OmitPassword(userId[1]), userId[1]))
     ELSE Goto(p, arg[p], "gh_email")
  /\ UNCHANGED <<users, now, compared>>

\* Mutant: a first-time provider identity whose e-mail is taken is logged in
\* as the account that holds the e-mail.
GithubEmailTakesOver(p) ==
  /\ pc[p] = "gh_email"
  /\ IF EmailTaken(arg[p].email)
     THEN LET user == WhereEmail(arg[p].email)[1] IN
          Finish(p, arg[p], Success(OmitPassword(user), user))
     ELSE Goto(p, arg[p], "gh_name")
  /\ UNCHANGED <<users, now, compared>>

GithubEmail(p) ==
  /\ pc[p] = "gh_email"
  /\ IF EmailTaken(arg[p].email)
     THEN Finish(p, arg[p], AppError(422, "E-mail address is already taken."))
     ELSE Goto(p, arg[p], "gh_name")
  /\ UNCHANGED <<users, now, compared>>

GithubName(p) ==
  /\ pc[p] = "gh_name"
  /\ IF NameTaken(arg[p].name)
     THEN Finish(p, arg[p], AppError(422, "Name is already taken."))
     ELSE Goto(p, arg[p], "gh_insert")
  /\ UNCHANGED <<users, now, compared>>

GithubInsert(p) ==
  /\ pc[p] = "gh_insert"
  /\ LET newUser == Insert(GithubFields(arg[p])) IN
     IF newUser.ok
     THEN /\ users' = Append(users, newUser.row)
          /\ Finish(p, arg[p], Success(newUser.row, newUser.row))
     ELSE /\ users' = users
          /\ Finish(p, arg[p], Thrown(newUser.error))
  /\ UNCHANGED <<now, compared>>

\* ------------------------------------------ token-version invalidation
\* The explicit invalidation event: a user's token_version is incremented.
BumpTokenVersion(i) ==
  /\ users[i].token_version < MaxVersion
  /\ users' = [users EXCEPT ![i].token_version = @ + 1]
  /\ UNCHANGED <<now, pc, arg, res, compared>>

\* ---------------------------------------------------------- lifecycle
\* Time passes.  The clock is read only to stamp and to check tokens, so it
\* is counted from the first token issued.
Tick ==
  /\ now < MaxTime
  /\ HeldTokens # {}
  /\ now' = now + 1
  /\ UNCHANGED <<users, pc, arg, res, compared>>

Init ==
  /\ users = <<>>
  /\ now = 0
  /\ pc = [p \in Calls |-> "new"]
  /\ arg = [p \in Calls |-> NoArg]
  /\ res = [p \in Calls |-> NoResult]
  /\ compared = [p \in Calls |-> FALSE]

Next ==
  \/ \E p \in Calls : LoginSelect(p)
  \/ \E p \in Calls : LoginCompare(p)
  \/ \E p \in Calls : RegisterEmail(p)
  \/ \E p \in Calls : RegisterName(p)
  \/ \E p \in Calls : RegisterInsert(p)
  \/ \E p \in Calls : RefreshToken(p)
  \/ \E p \in Calls : GithubToken(p)
  \/ \E p \in Calls : GithubFetch(p)
  \/ \E p \in Calls : GithubLookup(p)
  \/ \E p \in Calls : GithubEmail(p)
  \/ \E p \in Calls : GithubName(p)
  \/ \E p \in Calls : GithubInsert(p)
  \/ \E i \in 1..Len(users) : BumpTokenVersion(i)
  \/ Tick

Spec == Init /\ [][Next]_vars

\* ===================================================================
\* Properties
\* ===================================================================
\* Call p ends in this step, as operation op.
Ends(p, op) == pc[p] # "done" /\ pc'[p] = "done" /\ arg'[p].op = op

Unauthorized == AppError(401, "Refresh token is invalid.")

\* C1: in every reachable state, however register and githubData calls
\* interleave their email check, name check and insert, no two user rows
\* share an email and no two user rows share a name.
C1_UniqueEmailAndName ==
  \A i, j \in 1..Len(users) :
    i # j => users[i].email # users[j].email /\ users[i].name # users[j].name

\* A call passed both existence checks and lost the race at its insert.
C1_Witness ==
  \E p \in Calls :
    /\ pc[p] = "done" /\ arg[p].op \in {"register", "githubData"}
    /\ res[p].kind = "DuplicateKey"
    /\ \E i \in 1..Len(users) :
         users[i].email = arg[p].email \/ users[i].name = arg[p].name

\* C2: of the register calls made with one name and one email, at most one
\* succeeds and every other one fails with the typed Conflict (422), also the
\* one that passed both existence checks and was rejected at its insert.
C2_LosersFailWithConflict ==
  \A p, q \in Calls :
    (/\ p # q
     /\ pc[p] = "done" /\ arg[p].op = "register"
     /\ pc[q] = "done" /\ arg[q].op = "register"
     /\ arg[p].name = arg[q].name /\ arg[p].email = arg[q].email
     /\ res[p].kind = "ok")
    => res[q].kind = "AppError" /\ res[q].status = 422

\* C3: refreshToken succeeds only when the token's version equals the version
\* stored for its user id, and a refresh token whose user's version was bumped
\* after issuance is rejected with Unauthorized (401) on every later call.
C3_StaleTokenUnauthorized ==
  [][\A p \in Calls :
       Ends(p, "refreshToken") =>
         LET t == arg'[p].token IN
         /\ res'[p].kind = "ok" =>
              /\ t.userId \in 1..Len(users)
              /\ users[t.userId].token_version = t.tokenVersion
         /\ (/\ t.secret = REFRESH_TOKEN_SECRET
             /\ t.userId \in 1..Len(users)
             /\ users[t.userId].token_version > t.tokenVersion)
            => res'[p] = Unauthorized]_vars

\* C4: refreshToken called with a token that fails verification against the
\* refresh secret (bad signature, or expired) fails with the typed
\* Unauthorized (401), and no access token is issued.
C4_UnverifiedTokenUnauthorized ==
  [][\A p \in Calls :
       (Ends(p, "refreshToken")
        /\ ~JwtVerify(arg'[p].token, REFRESH_TOKEN_SECRET).ok)
       => res'[p].kind = "AppError" /\ res'[p].status = 401]_vars

\* C5: a token signed in the access domain is never accepted by refreshToken,
\* even when its payload matches a current user row.
C5_AccessTokenNeverRefreshes ==
  \A p \in Calls :
    (/\ pc[p] = "done" /\ arg[p].op = "refreshToken"
     /\ arg[p].token.secret = ACCESS_TOKEN_SECRET)
    => res[p].kind # "ok"

\* An unexpired access token whose payload matches its user's row was presented.
C5_Witness ==
  \E p \in Calls :
    /\ pc[p] = "done" /\ arg[p].op = "refreshToken"
    /\ arg[p].token.secret = ACCESS_TOKEN_SECRET
    /\ arg[p].token.exp > now
    /\ arg[p].token.userId \in 1..Len(users)
    /\ users[arg[p].token.userId].token_version = arg[p].token.tokenVersion
    /\ res[p].kind = "JsonWebTokenError"

InvalidCredential == AppError(401, "Invalid password.")

EmailConflict == AppError(422, "E-mail address is already taken.")

\* C6: login on the email of a federation-only account (no password) fails
\* with InvalidCredential (401) for every supplied password, never with
\* another error kind or an untyped error, and issues no tokens.
C6_FederatedLoginInvalidCredential ==
  \A p \in Calls :
    (/\ pc[p] = "done" /\ arg[p].op = "login" /\ compared[p]
     /\ WhereEmail(arg[p].email)[1].password = NullPassword)
    => res[p] = InvalidCredential

\* C7: login returns tokens if and only if a user with the email exists and
\* the password verifies against the stored hash; with no such email it fails
\* NotFound (404) without a password check; with an existing email and a
\* password that does not verify it fails InvalidCredential (401).
C7_LoginOutcomes ==
  [][\A p \in Calls :
       Ends(p, "login") =>
         LET rows == WhereEmail(arg'[p].email) IN
         IF Len(rows) = 0
         THEN /\ res'[p].kind = "AppError" /\ res'[p].status = 404
              /\ ~compared'[p]
         ELSE IF /\ rows[1].password # NullPassword
                 /\ BcryptCompare(arg'[p].password, rows[1].password) = "true"
              THEN res'[p].kind = "ok"
              ELSE res'[p] = InvalidCredential]_vars

\* C8: register whose name and email are both unused when it inserts adds
\* exactly one row, holding that name, that email, a hash of the password and
\* token-version 0, and returns that user without a password field with a
\* refresh and an access token that carry the new id and token-version 0.
C8_RegisterInsertsOneRow ==
  [][\A p \in Calls :
       (/\ pc[p] = "reg_insert" /\ pc'[p] # pc[p]
        /\ ~EmailTaken(arg[p].email) /\ ~NameTaken(arg[p].name))
       => /\ Len(users') = Len(users) + 1
          /\ SubSeq(users', 1, Len(users)) = users
          /\ LET row == users'[Len(users')]
                 r == res'[p]
             IN /\ row.name = arg[p].name /\ row.email = arg[p].email
                /\ row.password # NullPassword
                /\ BcryptCompare(arg[p].password, row.password) = "true"
                /\ row.token_version = 0
                /\ \A i \in 1..Len(users) : users[i].id # row.id
                /\ r.kind = "ok"
                /\ "password" \notin DOMAIN r.user
                /\ r.user = [id |-> row.id, name |-> row.name,
                             email |-> row.email, githubId |-> row.githubId,
                             token_version |-> 0]
                /\ r.refreshToken.secret = REFRESH_TOKEN_SECRET
                /\ r.accessToken.secret = ACCESS_TOKEN_SECRET
                /\ \A t \in {r.refreshToken, r.accessToken} :
                     t.userId = row.id /\ t.tokenVersion = 0]_vars

\* A register call inserted a row next to an existing one.
C8_Witness ==
  \E p \in Calls :
    /\ pc[p] = "done" /\ arg[p].op = "register" /\ res[p].kind = "ok"
    /\ res[p].user.id = 2
    /\ Len(users) = 2 /\ users[2].email = arg[p].email

\* C9: register called with an email that a user row already holds fails
\* with Conflict (422) and leaves the store as it was.
C9_RegisterEmailTaken ==
  [][\A p \in Calls :
       (/\ pc[p] = "new" /\ pc'[p] # "new" /\ arg'[p].op = "register"
        /\ Len(WhereEmail(arg'[p].email)) # 0)
       => /\ pc'[p] = "done"
          /\ res'[p] = EmailConflict
          /\ users' = users]_vars

\* register was refused for its email although its name was free.
C9_Witness ==
  \E p \in Calls :
    /\ pc[p] = "done" /\ arg[p].op = "register" /\ res[p] = EmailConflict
    /\ Len(WhereEmail(arg[p].email)) = 1
    /\ Len(WhereName(arg[p].name)) = 0

\* C10: githubData whose provider id is bound to no user at its lookup, and
\* whose fetched email an existing account holds, ends with Conflict (422)
\* however other calls interleave: its steps create no row, leave every row
\* unchanged and issue no tokens.
C10_FederatedEmailConflict ==
  [][\A p \in Calls :
       /\ (/\ pc[p] = "gh_lookup" /\ pc'[p] # pc[p]
           /\ Len(WhereGithubId(arg[p].githubId)) = 0
           /\ Len(WhereEmail(arg[p].email)) # 0)
          => /\ pc'[p] = "gh_email"
             /\ res'[p] = NoResult
             /\ users' = users
       /\ (pc[p] = "gh_email" /\ Len(WhereEmail(arg[p].email)) # 0)
          => /\ Len(WhereEmail(arg[p].email))' # 0
             /\ pc'[p] # pc[p] =>
                  /\ pc'[p] = "done"
                  /\ res'[p] = EmailConflict
                  /\ TokensOf(res'[p]) = {}
                  /\ users' = users]_vars

\* A first-time provider identity was refused for the email of a local account.
C10_Witness ==
  \E p \in Calls :
    /\ pc[p] = "done" /\ arg[p].op = "githubData" /\ res[p] = EmailConflict
    /\ Len(WhereGithubId(arg[p].githubId)) = 0
    /\ \E i \in 1..Len(users) :
         /\ users[i].email = arg[p].email
         /\ users[i].githubId = NULL
         /\ users[i].password # NullPassword

\* C11: every successful result of login, register and githubData (both the
\* existing-provider-id path and the first-time path) holds a user record
\* without a password field, a refresh token and an access token.
C11_SuccessShape ==
  \A p \in Calls :
    (/\ pc[p] = "done" /\ arg[p].op \in {"login", "register", "githubData"}
     /\ res[p].kind = "ok")
    => /\ DOMAIN res[p] = {"kind", "user", "refreshToken", "accessToken"}
       /\ "password" \notin DOMAIN res[p].user
       /\ res[p].refreshToken.secret = REFRESH_TOKEN_SECRET
       /\ res[p].accessToken.secret = ACCESS_TOKEN_SECRET

\* C12: githubToken returns the provider access token exactly when the
\* provider's response carries one; a response without one fails Unauthorized
\* (401); a failed provider call fails with a typed error that is not
\* Unauthorized, never with an untyped error.
C12_GithubTokenOutcomes ==
  \A p \in Calls :
    (pc[p] = "done" /\ arg[p].op = "githubToken")
    => /\ res[p].kind \in {"ok", "AppError"}
       /\ res[p].kind = "ok" <=> arg[p].answer = "access_token"
       /\ arg[p].answer = "no_access_token" =>
            res[p].kind = "AppError" /\ res[p].status = 401
       /\ arg[p].answer = "request_failed" =>
            res[p].kind = "AppError" /\ res[p].status # 401

\* C13: the email githubData checks for a conflict and stores on a new user
\* is an entry of the provider's list flagged primary and verified; a primary
\* but unverified email is never bound to a new user.
C13_EmailPrimaryAndVerified ==
  \A p \in Calls :
    (arg[p].op = "githubData" /\ pc[p] \in {"gh_email", "gh_name", "gh_insert"})
    => arg[p].verified

\* C14: no two user rows share a non-null provider id, also when two
\* githubData calls for one unbound provider identity both pass the
\* provider-id lookup before either inserts.
C14_UniqueProviderId ==
  \A i, j \in 1..Len(users) :
    (i # j /\ users[i].githubId # NULL) => users[i].githubId # users[j].githubId

\* Two githubData calls for one identity passed the lookup; the second insert
\* collided on the provider id alone.
C14_Witness ==
  \E p \in Calls :
    /\ pc[p] = "done" /\ arg[p].op = "githubData"
    /\ res[p].kind = "DuplicateKey"
    /\ Len(users) = 1
    /\ users[1].githubId = arg[p].githubId
    /\ users[1].email # arg[p].email
    /\ users[1].name # arg[p].name

NameConflict == AppError(422, "Name is already taken.")

\* C15: when the email and the name of a signup are both already used, the
\* failure is the email Conflict, never the name Conflict: register and the
\* first-time path of githubData decide the email check before the name check.
C15_EmailConflictFirst ==
  [][\A p \in Calls :
       /\ (/\ pc[p] = "new" /\ pc'[p] # "new" /\ arg'[p].op = "register"
           /\ Len(WhereEmail(arg'[p].email)) # 0
           /\ Len(WhereName(arg'[p].name)) # 0)
          => pc'[p] = "done" /\ res'[p] = EmailConflict
       /\ (/\ pc[p] = "gh_email" /\ pc'[p] # pc[p]
           /\ Len(WhereEmail(arg[p].email)) # 0
           /\ Len(WhereName(arg[p].name)) # 0)
          => pc'[p] = "done" /\ res'[p] = EmailConflict
       /\ (res[p] # NameConflict /\ res'[p] = NameConflict)
          => /\ pc[p] \in {"reg_name", "gh_name"}
             /\ Len(WhereName(arg[p].name)) # 0]_vars

\* A first-time githubData whose email and name were both used was refused
\* for its email.
C15_Witness ==
  \E p \in Calls :
    /\ pc[p] = "done" /\ arg[p].op = "githubData" /\ res[p] = EmailConflict
    /\ Len(WhereEmail(arg[p].email)) # 0
    /\ Len(WhereName(arg[p].name)) # 0
    /\ Len(WhereGithubId(arg[p].githubId)) = 0

HeldRefreshTokens == {t \in HeldTokens : t.secret = REFRESH_TOKEN_SECRET}

C18_FlowsOnlyInsert ==
  [][pc' # pc =>
       \/ users' = users
       \/ /\ Len(users') = Len(users) + 1
          /\ SubSeq(users', 1, Len(users)) = users
          /\ \E p \in Calls :
               /\ pc[p] \in {"reg_insert", "gh_insert"}
               /\ pc'[p] = "done"
               /\ res'[p].kind = "ok"
               /\ res'[p].user.id = users'[Len(users')].id]_vars

\* A login or a refresh succeeded on a registered row, and the table holds
\* that row alone, as register inserted it.
C18_Witness ==
  \E p, q \in Calls :
    /\ pc[p] = "done" /\ arg[p].op = "register" /\ res[p].kind = "ok"
    /\ pc[q] = "done" /\ arg[q].op \in {"login", "refreshToken"}
    /\ res[q].kind = "ok"
    /\ Len(users) = 1
    /\ OmitPassword(users[1]) = res[p].user
    /\ BcryptCompare(arg[p].password, users[1].password) = "true"

\* The operations that hand out a refresh token.
Issuers == {"login", "register", "githubData"}

====
